---- MODULE Spec2Model ----
(***************************************************************************)
(* Urban-Navigation-Engine: grafo_pesado.py (dijkstra, camino_minimo,      *)
(* prim, kruskal) and gps.py (_nombre_calle, _calcular_giro,               *)
(* construir_instrucciones) as state machines.                             *)
(*                                                                         *)
(* Nodes are 1..NumNodos.  A graph G is a function from the set of its     *)
(* edges <<u, v>> to the value the weight function returns on that edge;   *)
(* an undirected graph holds both <<u, v>> and <<v, u>> with one weight,   *)
(* as the adjacency of nx.Graph does.                                      *)
(***************************************************************************)
EXTENDS Integers, Sequences, FiniteSets, TLC

VARIABLES pc, G, padre, Q, contador, camino,
          \* dijkstra, camino_minimo
          origen, destino, dist, visitado, padres, actual, retorno, llamadas,
          \* prim, kruskal
          coste, en_Q, lista, C, aristas_aam,
          \* _calcular_giro, construir_instrucciones
          idx_inicio_segmento, giro, segmentos, nombre_actual, dist_actual,
          inicio_idx, i_camino, instrucciones, total_dist, j_segmento

varsCM == <<origen, destino, dist, visitado, padres, actual, retorno, llamadas>>
varsAAM == <<coste, en_Q, lista, C, aristas_aam>>
varsFrases == <<instrucciones, total_dist, j_segmento>>
varsGPS == <<idx_inicio_segmento, giro, segmentos, nombre_actual, dist_actual,
             inicio_idx, i_camino, varsFrases>>
vars == <<pc, G, padre, Q, contador, camino, varsCM, varsAAM, varsGPS>>

(* ------------------------------ bounds --------------------------------- *)
NumNodos == 3
MaxAristas == 3
MaxPeso == 1

Nodos == 1..NumNodos
\* a hashable key that is no node of the graph
Ajeno == NumNodos + 1
Pares == {p \in Nodos \X Nodos : p[1] # p[2]}

(* ------------------------- grafo_pesado.py ----------------------------- *)
None == 0
INFTY == NumNodos * (MaxPeso + 2) + 1

\* peso(G, u, v): the weight function reads the edge's data
Peso(g, u, v) == g[<<u, v>>]

\* G.neighbors(v)
Vecinos(g, v) == {x \in Nodos : <<v, x>> \in DOMAIN g}

\* the orders in which an iteration may yield the members of S
RECURSIVE Ordenes(_)
Ordenes(S) ==
  IF S = {} THEN {<<>>}
  ELSE UNION {{<<x>> \o o : o \in Ordenes(S \ {x})} : x \in S}

\* heapq.heappop: the least tuple, by distance and then by sequence number
Menor(q) == CHOOSE e \in q : \A f \in q :
               e[1] < f[1] \/ (e[1] = f[1] /\ e[2] <= f[2])

\* dist[v] + w_vx (NuevaDistMut: the edge weight alone, as prim would take)
NuevaDistMut(dv, w) == w
NuevaDist(dv, w) == dv + w

\* dist[x] > dist[v] + w_vx (MejoraMut: >= in place of >)
MejoraMut(dx, cand) == dx >= cand
Mejora(dx, cand) == dx > cand

\* visitado[v] (YaVisitadoMut: no popped entry is taken for stale)
YaVisitadoMut(vis, v) == FALSE
YaVisitado(vis, v) == vis[v]

\* the body of "for x in G.neighbors(v)" over the neighbours in order ord
RECURSIVE RelajaVecinos(_, _, _)
RelajaVecinos(v, ord, st) ==
  IF ord = <<>> THEN st
  ELSE LET x == Head(ord)
           w_vx == Peso(G, v, x)
           cand == NuevaDist(st.dist[v], w_vx)
       IN RelajaVecinos(v, Tail(ord),
            IF Mejora(st.dist[x], cand)
            THEN [dist |-> [st.dist EXCEPT ![x] = cand],
                  padre |-> [st.padre EXCEPT ![x] = v],
                  Q |-> st.Q \cup {<<cand, st.contador, x>>},
                  contador |-> st.contador + 1]
            ELSE st)

\* origen == destino (AtajoMut: the test left out)
AtajoMut(o, d) == FALSE
Atajo(o, d) == o = d

\* del padre[origen]
SinOrigen(p, o) == [v \in (DOMAIN p) \ {o} |-> p[v]]

RECURSIVE Reverse(_)
Reverse(s) == IF s = <<>> THEN <<>> ELSE Append(Reverse(Tail(s)), Head(s))

SinLlamadas == [dijkstra |-> 0, peso |-> 0, grafo |-> 0]

\* camino_minimo up to the call of dijkstra, and dijkstra up to its loop
CaminoMinimoInicio ==
  /\ pc = "inicio"
  /\ IF Atajo(origen, destino)
     THEN /\ retorno' = <<origen>>
          /\ pc' = "fin"
          /\ UNCHANGED <<padre, dist, visitado, Q, contador, camino, llamadas>>
     ELSE /\ camino' = <<destino>>
          /\ padre' = [v \in Nodos |-> None]
          /\ visitado' = [v \in Nodos |-> FALSE]
          /\ dist' = [v \in Nodos |-> IF v = origen THEN 0 ELSE INFTY]
          /\ contador' = 1
          /\ Q' = {<<0, 0, origen>>}
          /\ llamadas' = [llamadas EXCEPT !.dijkstra = @ + 1, !.grafo = @ + 1]
          /\ pc' = "dijkstra"
          /\ UNCHANGED retorno
  /\ UNCHANGED <<G, origen, destino, padres, actual>>
  /\ UNCHANGED <<varsAAM, varsGPS>>

\* one iteration of "while Q" in dijkstra
DijkstraIter ==
  /\ pc = "dijkstra"
  /\ Q # {}
  /\ LET e == Menor(Q)
         v == e[3]
     IN IF ~YaVisitado(visitado, v)
        THEN \E ord \in Ordenes(Vecinos(G, v)) :
               LET st == RelajaVecinos(v, ord,
                           [dist |-> dist, padre |-> padre,
                            Q |-> Q \ {e}, contador |-> contador])
               IN /\ visitado' = [visitado EXCEPT ![v] = TRUE]
                  /\ dist' = st.dist
                  /\ padre' = st.padre
                  /\ Q' = st.Q
                  /\ contador' = st.contador
                  /\ llamadas' = [llamadas EXCEPT !.grafo = @ + 1,
                                                  !.peso = @ + Len(ord)]
        ELSE /\ Q' = Q \ {e}
             /\ UNCHANGED <<visitado, dist, padre, contador, llamadas>>
  /\ UNCHANGED <<pc, G, origen, destino, padres, camino, actual, retorno>>
  /\ UNCHANGED <<varsAAM, varsGPS>>

\* the end of dijkstra and camino_minimo's test of its result
DijkstraFin ==
  /\ pc = "dijkstra"
  /\ Q = {}
  /\ padre' = SinOrigen(padre, origen)
  /\ padres' = padre'
  /\ IF destino \notin DOMAIN padre'
     THEN /\ retorno' = <<>>
          /\ pc' = "fin"
          /\ UNCHANGED actual
     ELSE /\ actual' = destino
          /\ pc' = "recorre"
          /\ UNCHANGED retorno
  /\ UNCHANGED <<G, origen, destino, dist, visitado, Q, contador, camino, llamadas>>
  /\ UNCHANGED <<varsAAM, varsGPS>>

\* one iteration of "while actual != origen"; padres[actual] raises KeyError
\* when actual is no key of padres
CaminoPaso ==
  /\ pc = "recorre"
  /\ actual # origen
  /\ IF actual \in DOMAIN padres
     THEN /\ actual' = padres[actual]
          /\ camino' = Append(camino, padres[actual])
          /\ UNCHANGED <<pc, retorno>>
     ELSE /\ pc' = "error"
          /\ retorno' = "KeyError"
          /\ UNCHANGED <<actual, camino>>
  /\ UNCHANGED <<G, origen, destino, padre, dist, visitado, Q, contador, padres, llamadas>>
  /\ UNCHANGED <<varsAAM, varsGPS>>

\* camino.reverse(); return camino
CaminoFin ==
  /\ pc = "recorre"
  /\ actual = origen
  /\ camino' = Reverse(camino)
  /\ retorno' = camino'
  /\ pc' = "fin"
  /\ UNCHANGED <<G, origen, destino, padre, dist, visitado, Q, contador, padres, actual, llamadas>>
  /\ UNCHANGED <<varsAAM, varsGPS>>

(* ------------------------- specification Spec -------------------------- *)
\* the variables of the operations a specification does not run
SinCM ==
  /\ origen = None /\ destino = None /\ dist = <<>> /\ visitado = <<>>
  /\ padres = <<>> /\ actual = None /\ retorno = <<>> /\ llamadas = SinLlamadas
SinAAM ==
  /\ coste = <<>> /\ en_Q = {} /\ lista = <<>> /\ C = <<>> /\ aristas_aam = <<>>
SinFrases == instrucciones = <<>> /\ total_dist = 0 /\ j_segmento = 0
SinGPS ==
  /\ idx_inicio_segmento = 0 /\ giro = None /\ segmentos = <<>>
  /\ nombre_actual = None /\ dist_actual = 0 /\ inicio_idx = 0 /\ i_camino = 0
  /\ SinFrases

Aristas == {E \in SUBSET Pares : Cardinality(E) <= MaxAristas}

Init ==
  /\ pc = "inicio"
  /\ \E E \in Aristas : G \in [E -> 0..MaxPeso]
  \* the algorithms never look at a node's identity, so every origin is the
  \* image of node 1 under a renaming of the nodes of some graph drawn here
  /\ origen = 1
  /\ destino \in Nodos \cup {Ajeno}
  /\ padre = <<>> /\ dist = <<>> /\ visitado = <<>>
  /\ Q = {} /\ contador = 0
  /\ padres = <<>> /\ camino = <<>> /\ actual = None /\ retorno = <<>>
  /\ llamadas = SinLlamadas
  /\ SinAAM
  /\ SinGPS

Next ==
  \/ CaminoMinimoInicio
  \/ DijkstraIter
  \/ DijkstraFin
  \/ CaminoPaso
  \/ CaminoFin

Spec == Init /\ [][Next]_vars

(* --------------------------- prim, kruskal ----------------------------- *)
MaxPesoAAM == 2

\* x in en_Q (EnFronteraMut: the test left out)
EnFronteraMut(x, enq) == TRUE
EnFrontera(x, enq) == x \in enq

\* w_vx < coste[x]
Abarata(w, cx) == w < cx

\* the body of "for x in G.neighbors(v)" of prim over the neighbours in order ord
RECURSIVE PrimVecinos(_, _, _)
PrimVecinos(v, ord, st) ==
  IF ord = <<>> THEN st
  ELSE LET x == Head(ord)
           w_vx == Peso(G, v, x)
       IN PrimVecinos(v, Tail(ord),
            IF EnFrontera(x, st.en_Q) /\ Abarata(w_vx, st.coste[x])
            THEN [coste |-> [st.coste EXCEPT ![x] = w_vx],
                  padre |-> [st.padre EXCEPT ![x] = v],
                  Q |-> st.Q \cup {<<w_vx, st.contador, x>>},
                  contador |-> st.contador + 1,
                  en_Q |-> st.en_Q]
            ELSE st)

\* prim up to its loop: every node is pushed with cost INFTY, in the order of
\* G.nodes
PrimInicio ==
  /\ pc = "prim_inicio"
  /\ padre' = [v \in Nodos |-> None]
  /\ coste' = [v \in Nodos |-> INFTY]
  /\ Q' = {<<INFTY, v - 1, v>> : v \in Nodos}
  /\ contador' = NumNodos
  /\ en_Q' = Nodos
  /\ pc' = "prim"
  /\ UNCHANGED <<G, camino, lista, C, aristas_aam, varsCM, varsGPS>>

\* one iteration of "while Q" in prim
PrimIter ==
  /\ pc = "prim"
  /\ Q # {}
  /\ LET e == Menor(Q)
         v == e[3]
     IN IF v \notin en_Q
        THEN /\ Q' = Q \ {e}
             /\ UNCHANGED <<en_Q, coste, padre, contador>>
        ELSE \E ord \in Ordenes(Vecinos(G, v)) :
               LET st == PrimVecinos(v, ord,
                           [coste |-> coste, padre |-> padre, Q |-> Q \ {e},
                            contador |-> contador, en_Q |-> en_Q \ {v}])
               IN /\ en_Q' = st.en_Q
                  /\ coste' = st.coste
                  /\ padre' = st.padre
                  /\ Q' = st.Q
                  /\ contador' = st.contador
  /\ UNCHANGED <<pc, G, camino, lista, C, aristas_aam, varsCM, varsGPS>>

\* return padre
PrimFin ==
  /\ pc = "prim"
  /\ Q = {}
  /\ pc' = "kruskal_inicio"
  /\ UNCHANGED <<G, padre, Q, contador, camino, varsAAM, varsCM, varsGPS>>

\* G.edges of an undirected graph: each edge once
AristasDe(g) == {p \in DOMAIN g : p[1] < p[2]}

\* lista.sort(key=lambda x: x[0]) leaves l in ascending order of weight
\* (OrdenadaMut: the sort left out)
OrdenadaMut(l) == TRUE
Ordenada(l) == \A a, b \in 1..Len(l) : a < b => l[a][1] <= l[b][1]

\* the lists (peso, u, v) of the edges of g after the sort: edges of equal
\* weight stay in the order G.edges gave them, which is any order
ListasOrdenadas(g) ==
  {l \in {[k \in 1..Cardinality(AristasDe(g)) |-> <<Peso(g, o[k][1], o[k][2]), o[k][1], o[k][2]>>] :
            o \in Ordenes(AristasDe(g))} : Ordenada(l)}

\* for w in nueva_comp: C[w] = nueva_comp (FusionaMut: only C[u] and C[v]
\* are replaced)
FusionaMut(c, u, v) == [c EXCEPT ![u] = c[u] \cup c[v], ![v] = c[u] \cup c[v]]
Fusiona(c, u, v) ==
  LET nueva_comp == c[u] \cup c[v]
  IN [w \in DOMAIN c |-> IF w \in nueva_comp THEN nueva_comp ELSE c[w]]

\* lista after lista.pop(0) (SinCabezaMut: the head is read and left)
SinCabezaMut(l) == l
SinCabeza(l) == Tail(l)

\* kruskal up to its loop
KruskalInicio ==
  /\ pc = "kruskal_inicio"
  /\ lista' \in ListasOrdenadas(G)
  /\ C' = [v \in Nodos |-> {v}]
  /\ aristas_aam' = <<>>
  /\ pc' = "kruskal"
  /\ UNCHANGED <<G, padre, Q, contador, camino, coste, en_Q, varsCM, varsGPS>>

\* one iteration of "while lista" in kruskal
KruskalIter ==
  /\ pc = "kruskal"
  /\ lista # <<>>
  /\ LET u == Head(lista)[2]
         v == Head(lista)[3]
     IN /\ lista' = SinCabeza(lista)
        /\ IF C[u] # C[v]
           THEN /\ aristas_aam' = Append(aristas_aam, <<u, v>>)
                /\ C' = Fusiona(C, u, v)
           ELSE UNCHANGED <<aristas_aam, C>>
  /\ UNCHANGED <<pc, G, padre, Q, contador, camino, coste, en_Q, varsCM, varsGPS>>

\* return aristas_aam
KruskalFin ==
  /\ pc = "kruskal"
  /\ lista = <<>>
  /\ pc' = "hecho"
  /\ UNCHANGED <<G, padre, Q, contador, camino, varsAAM, varsCM, varsGPS>>

(* ------------------------ specification SpecAAM ------------------------ *)
ParesND == {p \in Pares : p[1] < p[2]}
AristasND == {E \in SUBSET ParesND : Cardinality(E) <= MaxAristas}

\* the adjacency of the undirected graph with edges E and weights w
NoDirigido(E, w) ==
  [p \in E \cup {<<q[2], q[1]>> : q \in E} |->
     IF p \in E THEN w[p] ELSE w[<<p[2], p[1]>>]]

InitAAM ==
  /\ pc = "prim_inicio"
  /\ \E E \in AristasND : \E w \in [E -> 0..MaxPesoAAM] : G = NoDirigido(E, w)
  /\ padre = <<>> /\ Q = {} /\ contador = 0 /\ camino = <<>>
  /\ SinCM
  /\ SinAAM
  /\ SinGPS

NextAAM ==
  \/ PrimInicio
  \/ PrimIter
  \/ PrimFin
  \/ KruskalInicio
  \/ KruskalIter
  \/ KruskalFin

SpecAAM == InitAAM /\ [][NextAAM]_vars

(* ---------------------- specification SpecTermina --------------------- *)
\* camino_minimo with dijkstra on a directed graph, or prim and then kruskal
\* on an undirected one; a call that can take a step takes it
\* the weights are drawn from the ends of their range and one destino is
\* taken, which leaves the loops every order of their entries
InitTermina ==
  \/ /\ pc = "inicio"
     /\ \E E \in Aristas : G \in [E -> {0, MaxPeso}]
     /\ origen = 1
     /\ destino = NumNodos
     /\ padre = <<>> /\ dist = <<>> /\ visitado = <<>>
     /\ Q = {} /\ contador = 0
     /\ padres = <<>> /\ camino = <<>> /\ actual = None /\ retorno = <<>>
     /\ llamadas = SinLlamadas
     /\ SinAAM
     /\ SinGPS
  \/ /\ pc = "prim_inicio"
     /\ \E E \in AristasND : \E w \in [E -> {0, MaxPesoAAM}] : G = NoDirigido(E, w)
     /\ padre = <<>> /\ Q = {} /\ contador = 0 /\ camino = <<>>
     /\ SinCM
     /\ SinAAM
     /\ SinGPS

NextTermina == Next \/ NextAAM

SpecTermina == InitTermina /\ [][NextTermina]_vars /\ WF_vars(NextTermina)

(* ------------------------------- gps.py -------------------------------- *)
\* In the two specifications of gps.py, G is [nodes |-> the data of each
\* node, adj |-> the data of each edge <<u, v>>], camino the list of nodes.
\* A dictionary is a function whose DOMAIN is its keys, so an attribute that
\* is absent is a key that is not in the DOMAIN.  Indices into camino are
\* Python's, from 0: camino[k] is written camino[k + 1].
MaxCamino == 3
MaxCoord == 1
MaxTramos == 3
MaxLongitud == 2

\* Python's None where the other values are strings
Ninguno == "None"

\* Coordinates are whole multiples of 1/2000, so a product of two
\* coordinate differences is a whole multiple of 1/4000000 and
\* eps = 0.000001 is 4 of these.
EPS == 4

Abs(n) == IF n < 0 THEN -n ELSE n

\* vx == 0 and vy == 0
EsNulo(vx, vy) == vx = 0 /\ vy = 0

\* abs(cross) < eps and dot > 0 (CasiRectoMut: dot is not looked at)
CasiRectoMut(cross, dot) == Abs(cross) < EPS
CasiRecto(cross, dot) == Abs(cross) < EPS /\ dot > 0

\* _calcular_giro(camino, G, idx_inicio_segmento)
CalcularGiro(cam, g, idx) ==
  IF idx <= 0 \/ idx + 1 >= Len(cam) THEN Ninguno
  ELSE LET n0 == cam[idx]
           n1 == cam[idx + 1]
           n2 == cam[idx + 2]
           v1x == g.nodes[n1].x - g.nodes[n0].x
           v1y == g.nodes[n1].y - g.nodes[n0].y
           v2x == g.nodes[n2].x - g.nodes[n1].x
           v2y == g.nodes[n2].y - g.nodes[n1].y
           cross == v1x * v2y - v1y * v2x
           dot == v1x * v2x + v1y * v2y
       IN IF EsNulo(v1x, v1y) THEN Ninguno
          ELSE IF EsNulo(v2x, v2y) THEN Ninguno
          ELSE IF CasiRecto(cross, dot) THEN Ninguno
          ELSE IF cross > 0 THEN "gira a la izquierda"
          ELSE "gira a la derecha"

\* a call of _calcular_giro
GiroLlamada ==
  /\ pc = "giro_inicio"
  /\ giro' = CalcularGiro(camino, G, idx_inicio_segmento)
  /\ pc' = "giro_fin"
  /\ UNCHANGED <<G, padre, Q, contador, camino, varsCM, varsAAM,
                 idx_inicio_segmento, segmentos, nombre_actual, dist_actual,
                 inicio_idx, i_camino>>
  /\ UNCHANGED varsFrases

(* ----------------------- specification SpecGiro ------------------------ *)
Coords == (0 - MaxCoord)..MaxCoord
Puntos == [x : Coords, y : Coords]

InitGiro ==
  /\ pc = "giro_inicio"
  /\ \E n \in 1..MaxCamino :
       /\ camino = [k \in 1..n |-> k]
       /\ \E xy \in [1..n -> Puntos] : G = [nodes |-> xy, adj |-> <<>>]
       /\ idx_inicio_segmento \in 0..(n - 1)
  /\ giro = Ninguno
  /\ padre = <<>> /\ Q = {} /\ contador = 0
  /\ segmentos = <<>> /\ nombre_actual = Ninguno /\ dist_actual = 0
  /\ inicio_idx = 0 /\ i_camino = 0
  /\ SinFrases
  /\ SinCM
  /\ SinAAM

NextGiro == GiroLlamada

SpecGiro == InitGiro /\ [][NextGiro]_vars

(* --------------------- construir_instrucciones ------------------------- *)
SIN_NOMBRE == "vía sin nombre"

\* str(nombre).strip() for the names drawn here
Strip(str) == IF str \in {"", " ", "  "} THEN "" ELSE str

\* _nombre_calle(G, u, v) (NombreCalleMut: a blank name is kept)
NombreCalleMut(g, u, v) ==
  IF "name" \notin DOMAIN g.adj[<<u, v>>] THEN SIN_NOMBRE ELSE g.adj[<<u, v>>].name
NombreCalle(g, u, v) ==
  LET datos == g.adj[<<u, v>>]
  IN IF "name" \notin DOMAIN datos \/ Strip(datos.name) = ""
     THEN SIN_NOMBRE
     ELSE datos.name

\* float(datos.get("length", 0.0))
Longitud(g, u, v) ==
  LET datos == g.adj[<<u, v>>]
  IN IF "length" \in DOMAIN datos THEN datos.length ELSE 0

Segmento(nombre, d, inicio, fin) ==
  [nombre |-> nombre, dist |-> d, inicio |-> inicio, fin |-> fin]

MENSAJE_COINCIDEN == "Origen y destino coinciden. Ya estás en tu destino."

\* construir_instrucciones up to its first loop
InstrInicio ==
  /\ pc = "instr_inicio"
  /\ IF Len(camino) <= 1
     THEN /\ retorno' = <<MENSAJE_COINCIDEN>>
          /\ pc' = "instr_fin"
          /\ UNCHANGED <<segmentos, nombre_actual, dist_actual, inicio_idx, i_camino>>
     ELSE /\ segmentos' = <<>>
          /\ nombre_actual' = NombreCalle(G, camino[1], camino[2])
          /\ dist_actual' = Longitud(G, camino[1], camino[2])
          /\ inicio_idx' = 0
          /\ i_camino' = 1
          /\ pc' = "tramos"
          /\ UNCHANGED retorno
  /\ UNCHANGED <<G, padre, Q, contador, camino, varsAAM, idx_inicio_segmento, giro,
                 origen, destino, dist, visitado, padres, actual, llamadas>>
  /\ UNCHANGED varsFrases

\* one iteration of "for i in range(1, len(camino) - 1)"
InstrTramo ==
  /\ pc = "tramos"
  /\ i_camino < Len(camino) - 1
  /\ LET u == camino[i_camino + 1]
         v == camino[i_camino + 2]
         nombre == NombreCalle(G, u, v)
         longitud == Longitud(G, u, v)
     IN IF nombre = nombre_actual
        THEN /\ dist_actual' = dist_actual + longitud
             /\ UNCHANGED <<segmentos, nombre_actual, inicio_idx>>
        ELSE /\ segmentos' = Append(segmentos,
                   Segmento(nombre_actual, dist_actual, inicio_idx, i_camino))
             /\ nombre_actual' = nombre
             /\ dist_actual' = longitud
             /\ inicio_idx' = i_camino
  /\ i_camino' = i_camino + 1
  /\ UNCHANGED <<pc, G, padre, Q, contador, camino, varsCM, varsAAM,
                 idx_inicio_segmento, giro>>
  /\ UNCHANGED varsFrases

\* the last segment is appended when the loop is over; the loop that follows
\* (lines 187-204) reads segmentos and changes none of the variables here
InstrCierre ==
  /\ pc = "tramos"
  /\ i_camino >= Len(camino) - 1
  /\ segmentos' = Append(segmentos,
         Segmento(nombre_actual, dist_actual, inicio_idx, Len(camino) - 1))
  /\ pc' = "frases"
  /\ UNCHANGED <<G, padre, Q, contador, camino, varsCM, varsAAM,
                 idx_inicio_segmento, giro, nombre_actual, dist_actual,
                 inicio_idx, i_camino>>
  /\ UNCHANGED varsFrases

(* ----------------------- specification SpecInstr ----------------------- *)
Nombres == {" ", "Calle A", "Calle B", SIN_NOMBRE}
Longitudes == 1..MaxLongitud

\* the dictionaries of an edge: each of name and length is present or not
DatosArista ==
  {[name |-> s, length |-> l] : s \in Nombres, l \in Longitudes}
    \cup {[name |-> s] : s \in Nombres}
    \cup {[length |-> l] : l \in Longitudes}
    \cup {<<>>}

InitInstr ==
  /\ pc = "instr_inicio"
  /\ \E n \in 0..(MaxTramos + 1) :
       /\ camino = [k \in 1..n |-> k]
       /\ \E d \in [{<<k, k + 1>> : k \in 1..(n - 1)} -> DatosArista] :
            G = [nodes |-> <<>>, adj |-> d]
  /\ idx_inicio_segmento = 0 /\ giro = Ninguno
  /\ padre = <<>> /\ Q = {} /\ contador = 0
  /\ segmentos = <<>> /\ nombre_actual = Ninguno /\ dist_actual = 0
  /\ inicio_idx = 0 /\ i_camino = 0
  /\ SinFrases
  /\ SinCM
  /\ SinAAM

NextInstr ==
  \/ InstrInicio
  \/ InstrTramo
  \/ InstrCierre

SpecInstr == InitInstr /\ [][NextInstr]_vars

(* ---------------- construir_instrucciones: the phrases ----------------- *)
\* 2000 coordinate units are 1 (see EPS)
Unidad == 2000

\* the distances d in metres below 100 that end in 5 and whose quotient
\* d / 1000.0, as a double, lies above the decimal it is written as
MitadArriba == {5, 25, 35, 55, 65, 85, 95}

\* the hundredths of a kilometre f"{d / 1000.0:.2f}" shows for d metres; a
\* distance that ends in 5 is decided by MitadArriba, which covers d < 100
Centesimas(d) ==
  (d \div 10) + (IF d % 10 > 5 \/ (d % 10 = 5 /\ d \in MitadArriba) THEN 1 ELSE 0)

\* f"{dist_km:.2f}"
Km2f(d) ==
  LET c == Centesimas(d)
  IN ToString(c \div 100) \o "." \o ToString((c \div 10) % 10) \o ToString(c % 10)

\* the test "if giro"
HayGiroMut(g) == FALSE
HayGiro(g) == g \notin {Ninguno, ""}

\* the two bodies of a phrase
CuerpoFrase(nombre, dist_m) ==
  IF nombre = SIN_NOMBRE
  THEN "continúa durante " \o Km2f(dist_m) \o " km por una vía sin nombre."
  ELSE "sigue por " \o nombre \o " durante " \o Km2f(dist_m) \o " km."

\* _frase_segmento(nombre, dist_m, es_primero, giro)
FraseSegmento(nombre, dist_m, es_primero, g) ==
  LET inicio == IF es_primero THEN "Sal desde el origen y "
                ELSE IF HayGiro(g) THEN "Luego " \o g \o " y "
                ELSE "Luego "
  IN inicio \o CuerpoFrase(nombre, dist_m)

\* total_dist += dist (SumaTotalMut: = in place of +=)
SumaTotalMut(total, d) == d
SumaTotal(total, d) == total + d

\* f"Distancia total aproximada: {total_dist/1000:.2f} km."
LineaTotal(total) == "Distancia total aproximada: " \o Km2f(total) \o " km."

\* one iteration of "for j, seg in enumerate(segmentos)"
InstrFrase ==
  /\ pc = "frases"
  /\ j_segmento < Len(segmentos)
  /\ LET seg == segmentos[j_segmento + 1]
         g == IF j_segmento = 0 THEN Ninguno
              ELSE CalcularGiro(camino, G, seg.inicio)
     IN /\ giro' = g
        /\ instrucciones' = Append(instrucciones,
               FraseSegmento(seg.nombre, seg.dist, j_segmento = 0, g))
        /\ total_dist' = SumaTotal(total_dist, seg.dist)
  /\ j_segmento' = j_segmento + 1
  /\ UNCHANGED <<pc, G, padre, Q, contador, camino, varsCM, varsAAM,
                 idx_inicio_segmento, segmentos, nombre_actual, dist_actual,
                 inicio_idx, i_camino>>

\* the line of the total is appended and the list returned
InstrFin ==
  /\ pc = "frases"
  /\ j_segmento >= Len(segmentos)
  /\ instrucciones' = Append(instrucciones, LineaTotal(total_dist))
  /\ retorno' = instrucciones'
  /\ pc' = "instr_fin"
  /\ UNCHANGED <<G, padre, Q, contador, camino, varsAAM, idx_inicio_segmento,
                 giro, segmentos, nombre_actual, dist_actual, inicio_idx,
                 i_camino, total_dist, j_segmento,
                 origen, destino, dist, visitado, padres, actual, llamadas>>

(* ---------------------- specification SpecFrases ----------------------- *)
\* A(0, 0), B(1, 0), C(1, 1) and D(2, 0): B lies straight between A and D,
\* C is to the left of A -> B
PuntosFrases ==
  {[x |-> 0, y |-> 0], [x |-> Unidad, y |-> 0], [x |-> Unidad, y |-> Unidad],
   [x |-> 2 * Unidad, y |-> 0]}

\* an edge has a length of 50 m, 100 m, ... and a name or none
DatosFrases ==
  {[name |-> s, length |-> 50 * l] : s \in {"Calle A", "Calle B"}, l \in Longitudes}
    \cup {[length |-> 50 * l] : l \in Longitudes}

InitFrases ==
  /\ pc = "instr_inicio"
  /\ \E n \in 1..MaxCamino :
       /\ camino = [k \in 1..n |-> k]
       /\ \E xy \in [1..n -> PuntosFrases] :
            \E d \in [{<<k, k + 1>> : k \in 1..(n - 1)} -> DatosFrases] :
              G = [nodes |-> xy, adj |-> d]
  /\ idx_inicio_segmento = 0 /\ giro = Ninguno
  /\ padre = <<>> /\ Q = {} /\ contador = 0
  /\ segmentos = <<>> /\ nombre_actual = Ninguno /\ dist_actual = 0
  /\ inicio_idx = 0 /\ i_camino = 0
  /\ SinFrases
  /\ SinCM
  /\ SinAAM

NextFrases ==
  \/ InstrInicio
  \/ InstrTramo
  \/ InstrCierre
  \/ InstrFrase
  \/ InstrFin

SpecFrases == InitFrases /\ [][NextFrases]_vars

(* ---------------- camino_minimo, dijkstra: the keys -------------------- *)
\* Here origen and destino are Python values of several types: a value is
\* its type and its content, [tipo |-> "list", val |-> 1] being [1] and
\* [tipo |-> "frozenset", val |-> 1] being frozenset({1}).
NumClaves == 2
MaxAristasClave == 1

TiposClave == {"int", "frozenset", "list", "set"}
Claves == {[tipo |-> t, val |-> n] : t \in TiposClave, n \in 1..NumClaves}
NoneClave == [tipo |-> "NoneType", val |-> 0]

\* hash(k) succeeds; list and set define __hash__ = None
Hashable(k) == k.tipo \in {"int", "str", "tuple", "frozenset"}
\* hasattr(k, "__hash__"): the attribute exists on every object, with the
\* value None on list and set
TieneAtributoHash(k) == TRUE
\* the negation of the condition of lines 137, 192 and 195
ClaveAdmitida(k) ==
  k.tipo \in {"int", "str", "tuple", "frozenset"} \/ TieneAtributoHash(k)
\* origen == destino
IgualPy(a, b) ==
  /\ a.val = b.val
  /\ a.tipo = b.tipo \/ {a.tipo, b.tipo} = {"set", "frozenset"}

\* the nodes of the graph are the hashable values
NodosClave == {k \in Claves : Hashable(k)}
\* what dijkstra can return from origen o: a key for every node but o
\* (lines 144-146 and 167-168), its value None or a node with an edge into
\* the key (line 163)
PadresPosibles(g, o) ==
  {p \in [NodosClave \ {o} -> NodosClave \cup {NoneClave}] :
     \A x \in DOMAIN p : p[x] = NoneClave \/ <<p[x], x>> \in DOMAIN g}

\* camino_minimo, lines 192-200
CaminoClaves ==
  /\ pc = "cm_entrada"
  /\ IF ~ClaveAdmitida(origen) \/ ~ClaveAdmitida(destino)
     THEN /\ pc' = "error_clave"
          /\ retorno' = "TypeError"
          /\ UNCHANGED camino
     ELSE IF IgualPy(origen, destino)
     THEN /\ pc' = "fin_clave"
          /\ retorno' = <<origen>>
          /\ UNCHANGED camino
     ELSE /\ pc' = "cm_dijkstra"
          /\ camino' = <<destino>>
          /\ UNCHANGED retorno
  /\ UNCHANGED <<G, padre, Q, contador, origen, destino, dist, visitado, padres,
                 actual, llamadas>>
  /\ UNCHANGED <<varsAAM, varsGPS>>

\* dijkstra as a whole, called from camino_minimo (desde = "cm_dijkstra")
\* or by itself (desde = "dijkstra_entrada"): dist[origen] = 0 at line 149
\* hashes origen
DijkstraClaves(desde) ==
  /\ pc = desde
  /\ IF ~ClaveAdmitida(origen) \/ ~Hashable(origen)
     THEN /\ pc' = "error_clave"
          /\ retorno' = "TypeError"
          /\ UNCHANGED padres
     ELSE \E p \in PadresPosibles(G, origen) :
            IF desde = "cm_dijkstra"
            THEN /\ padres' = p
                 /\ pc' = "cm_padres"
                 /\ UNCHANGED retorno
            ELSE /\ retorno' = p
                 /\ pc' = "fin_clave"
                 /\ UNCHANGED padres
  /\ UNCHANGED <<G, padre, Q, contador, camino, origen, destino, dist, visitado,
                 actual, llamadas>>
  /\ UNCHANGED <<varsAAM, varsGPS>>

\* camino_minimo, lines 203-206: "destino not in padres" hashes destino
CaminoPertenencia ==
  /\ pc = "cm_padres"
  /\ IF ~Hashable(destino)
     THEN /\ pc' = "error_clave"
          /\ retorno' = "TypeError"
     ELSE IF destino \notin DOMAIN padres
     THEN /\ pc' = "fin_clave"
          /\ retorno' = <<>>
     ELSE /\ pc' = "cm_recorre"
          /\ UNCHANGED retorno
  /\ UNCHANGED <<G, padre, Q, contador, camino, origen, destino, dist, visitado,
                 padres, actual, llamadas>>
  /\ UNCHANGED <<varsAAM, varsGPS>>

(* ----------------------- specification SpecClave ----------------------- *)
\* the subsets of S of k elements at most
RECURSIVE Hasta(_, _)
Hasta(S, k) ==
  IF k = 0 THEN {{}}
  ELSE LET menos == Hasta(S, k - 1) IN menos \cup {c \cup {x} : c \in menos, x \in S}

AristasClave ==
  Hasta({<<u, v>> \in NodosClave \X NodosClave : u # v}, MaxAristasClave)

InitClave ==
  /\ pc \in {"cm_entrada", "dijkstra_entrada"}
  /\ \E E \in AristasClave : G = [e \in E |-> 1]
  /\ origen \in Claves
  \* dijkstra has no destino
  /\ destino \in IF pc = "cm_entrada" THEN Claves ELSE {NoneClave}
  /\ padre = <<>> /\ dist = <<>> /\ visitado = <<>>
  /\ Q = {} /\ contador = 0
  /\ padres = <<>> /\ camino = <<>> /\ actual = None /\ retorno = <<>>
  /\ llamadas = SinLlamadas
  /\ SinAAM
  /\ SinGPS

\* the call at line 201, and a call of dijkstra by itself
DijkstraDesdeCamino == DijkstraClaves("cm_dijkstra")
DijkstraSolo == DijkstraClaves("dijkstra_entrada")

NextClave ==
  \/ CaminoClaves
  \/ DijkstraDesdeCamino
  \/ DijkstraSolo
  \/ CaminoPertenencia

SpecClave == InitClave /\ [][NextClave]_vars

(* --------------- mas_rapido, mas_rapido_semaforos ---------------------- *)
\* A float is an exact fraction [num, den] in lowest terms; a call that
\* raises returns [error |-> the exception].
RECURSIVE MCD(_, _)
MCD(a, b) == IF b = 0 THEN a ELSE MCD(b, a % b)
Fraccion(n, d) == LET m == MCD(n, d) IN [num |-> n \div m, den |-> d \div m]
Entre(a, b) == Fraccion(a.num * b.den, a.den * b.num)
Por(a, b) == Fraccion(a.num * b.num, a.den * b.den)
Mas(a, b) == Fraccion(a.num * b.den + b.num * a.den, a.den * b.den)
Falla(e) == [error |-> e]
EsFalla(r) == "error" \in DOMAIN r

\* callejero.MAX_SPEEDS
MAX_SPEEDS ==
  [living_street |-> "20", residential |-> "30", primary_link |-> "40",
   unclassified |-> "40", secondary_link |-> "40", trunk_link |-> "40",
   secondary |-> "50", tertiary |-> "50", primary |-> "50", trunk |-> "50",
   tertiary_link |-> "50", busway |-> "50", motorway_link |-> "70",
   motorway |-> "100"]

\* str(maxspeed).strip() and float(texto) for the texts drawn here and the
\* texts of MAX_SPEEDS; float raises ValueError on any other text
TextoVelocidad(ms) == IF ms = " 30 " THEN "30" ELSE Strip(ms)
Flotante(texto) ==
  CASE texto = "0" -> Fraccion(0, 1)
    [] texto = "20" -> Fraccion(20, 1)
    [] texto = "30" -> Fraccion(30, 1)
    [] texto = "40" -> Fraccion(40, 1)
    [] texto = "50" -> Fraccion(50, 1)
    [] texto = "70" -> Fraccion(70, 1)
    [] texto = "100" -> Fraccion(100, 1)
    [] OTHER -> Falla("ValueError")

\* _velocidad_kmh(G, u, v); float(None) raises TypeError
VelocidadKmh(g, u, v) ==
  LET datos == g.adj[<<u, v>>]
      texto == IF "maxspeed" \in DOMAIN datos
               THEN TextoVelocidad(datos.maxspeed) ELSE ""
      propia == IF texto # "" THEN Flotante(texto) ELSE Falla("None")
  IN IF ~EsFalla(propia) THEN propia
     ELSE IF "highway" \in DOMAIN datos /\ datos.highway \in DOMAIN MAX_SPEEDS
     THEN Flotante(MAX_SPEEDS[datos.highway])
     ELSE Falla("TypeError")

\* mas_rapido(G, u, v); a float division by 0.0 raises ZeroDivisionError
MasRapido(g, u, v) ==
  LET datos == g.adj[<<u, v>>]
  IN IF "length" \notin DOMAIN datos THEN Falla("TypeError")
     ELSE LET longitud_m == Fraccion(datos.length, 1)
              vel_kmh == VelocidadKmh(g, u, v)
          IN IF EsFalla(vel_kmh) THEN vel_kmh
             ELSE LET vel_m_s == Entre(vel_kmh, Fraccion(36, 10))
                  IN IF vel_m_s.num = 0 THEN Falla("ZeroDivisionError")
                     ELSE Entre(longitud_m, vel_m_s)

\* mas_rapido_semaforos(G, u, v)
MasRapidoSemaforos(g, u, v) ==
  LET tiempo_base == MasRapido(g, u, v)
      prob == Fraccion(8, 10)
      tiempo_parada == Fraccion(30, 1)
      espera_esperada == Por(prob, tiempo_parada)
  IN IF EsFalla(tiempo_base) THEN tiempo_base
     ELSE Mas(tiempo_base, espera_esperada)

\* one call of each weight function on an edge of G
MasRapidoLlamada ==
  /\ pc = "mas_rapido"
  /\ \E e \in DOMAIN G.adj : retorno' = MasRapido(G, e[1], e[2])
  /\ pc' = "fin_mas_rapido"
  /\ UNCHANGED <<G, padre, Q, contador, camino, origen, destino, dist, visitado,
                 padres, actual, llamadas>>
  /\ UNCHANGED <<varsAAM, varsGPS>>

SemaforosLlamada ==
  /\ pc = "mas_rapido_semaforos"
  /\ \E e \in DOMAIN G.adj : retorno' = MasRapidoSemaforos(G, e[1], e[2])
  /\ pc' = "fin_semaforos"
  /\ UNCHANGED <<G, padre, Q, contador, camino, origen, destino, dist, visitado,
                 padres, actual, llamadas>>
  /\ UNCHANGED <<varsAAM, varsGPS>>

(* ----------------------- specification SpecPeso ------------------------ *)
\* the attributes of an edge: each of length, maxspeed, highway present or not
TextosMaxspeed == {"50", " 30 ", "0", "", " ", "50 mph"}
TiposVia == {"residential", "living_street", "motorway", "track"}
Campos(nombre, valores) == {<<>>} \cup {[c \in {nombre} |-> x] : x \in valores}
DatosPeso ==
  {l @@ m @@ h : l \in Campos("length", {50 * k : k \in Longitudes}),
                 m \in Campos("maxspeed", TextosMaxspeed),
                 h \in Campos("highway", TiposVia)}

InitPeso ==
  /\ pc \in {"mas_rapido", "mas_rapido_semaforos"}
  /\ \E d \in DatosPeso : G = [nodes |-> <<>>, adj |-> (<<1, 2>> :> d)]
  /\ padre = <<>> /\ Q = {} /\ contador = 0 /\ camino = <<>>
  /\ SinCM
  /\ SinAAM
  /\ SinGPS

NextPeso ==
  \/ MasRapidoLlamada
  \/ SemaforosLlamada

SpecPeso == InitPeso /\ [][NextPeso]_vars

(* ------------------- shortest paths: reference notions ----------------- *)
\* the nodes reachable from the nodes of S along edges of g
RECURSIVE Cierre(_, _)
Cierre(g, S) ==
  LET T == S \cup {x \in Nodos : \E v \in S : <<v, x>> \in DOMAIN g}
  IN IF T = S THEN S ELSE Cierre(g, T)

Alcanzables == Cierre(G, {origen})

MinDe(S) == CHOOSE m \in S : \A n \in S : m <= n

\* the least total weight of a walk of at most k edges from origen to each node
RECURSIVE BellmanFord(_)
BellmanFord(k) ==
  IF k = 0 THEN [x \in Nodos |-> IF x = origen THEN 0 ELSE INFTY]
  ELSE LET d == BellmanFord(k - 1)
       IN [x \in Nodos |->
             MinDe({d[x]} \cup {d[v] + G[<<v, x>>] :
                      v \in {u \in Nodos : <<u, x>> \in DOMAIN G /\ d[u] < INFTY}})]

DistMin == BellmanFord(NumNodos - 1)

RECURSIVE SumaCamino(_)
SumaCamino(p) ==
  IF Len(p) < 2 THEN 0 ELSE G[<<p[1], p[2]>>] + SumaCamino(Tail(p))

EsCamino(p) == \A i \in 1..(Len(p) - 1) : <<p[i], p[i + 1]>> \in DOMAIN G

\* dijkstra has returned to camino_minimo
DijkstraHecho == pc \in {"recorre", "fin", "error"} /\ llamadas.dijkstra = 1

\* following parent pointers from v arrives at origen in at most k steps
RECURSIVE LlegaAOrigen(_, _)
LlegaAOrigen(v, k) ==
  \/ v = origen
  \/ /\ k > 0
     /\ v \in DOMAIN padres
     /\ padres[v] # None
     /\ LlegaAOrigen(padres[v], k - 1)

(* ------------------- spanning trees: reference notions ----------------- *)
\* the nodes joined to the nodes of S by the undirected edges of T
RECURSIVE CierreND(_, _)
CierreND(T, S) ==
  LET U == S \cup {x \in Nodos : \E e \in T : \/ (e[1] \in S /\ e[2] = x)
                                              \/ (e[2] \in S /\ e[1] = x)}
  IN IF U = S THEN S ELSE CierreND(T, U)

\* the connected components of G
Componentes == {CierreND(AristasDe(G), {v}) : v \in Nodos}

RECURSIVE SumaPesos(_)
SumaPesos(T) ==
  IF T = {} THEN 0
  ELSE LET e == CHOOSE f \in T : TRUE IN G[e] + SumaPesos(T \ {e})

\* the first k edges kruskal accepted
Aceptadas(k) == {aristas_aam[j] : j \in 1..k}

Conexo == Cardinality(Componentes) = 1
PesosDistintos == \A e, f \in AristasDe(G) : e # f => G[e] # G[f]

PrimHecho == pc \in {"kruskal_inicio", "kruskal", "hecho"}
Raices(K) == {x \in K : padre[x] = None}
AristasPrim(K) == {<<padre[x], x>> : x \in K \ Raices(K)}

RECURSIVE LlegaARaiz(_, _)
LlegaARaiz(v, k) == padre[v] = None \/ (k > 0 /\ LlegaARaiz(padre[v], k - 1))

\* the spanning trees of the component K of G
ArbolesDe(K) ==
  {T \in SUBSET {e \in AristasDe(G) : e[1] \in K /\ e[2] \in K} :
     /\ Cardinality(T) = Cardinality(K) - 1
     /\ CierreND(T, {CHOOSE x \in K : TRUE}) = K}

(* ------------------------ gps.py: reference notions -------------------- *)
\* the node at index k of camino, and the vectors that arrive at it and
\* leave it
NodoEn(k) == G.nodes[camino[k + 1]]
Llegada(k) == <<NodoEn(k).x - NodoEn(k - 1).x, NodoEn(k).y - NodoEn(k - 1).y>>
Salida(k) == <<NodoEn(k + 1).x - NodoEn(k).x, NodoEn(k + 1).y - NodoEn(k).y>>
Cruz(a, b) == a[1] * b[2] - a[2] * b[1]
Escalar(a, b) == a[1] * b[1] + a[2] * b[2]
Cero == <<0, 0>>

\* the data of the path edge from index k to index k + 1, its street name
\* with an absent or blank name replaced by the label of unnamed ways, and
\* its length attribute, 0 when absent
DatosEn(k) == G.adj[<<camino[k + 1], camino[k + 2]>>]
NombreResuelto(k) ==
  IF "name" \in DOMAIN DatosEn(k) /\ DatosEn(k).name \notin {"", " ", "  "}
  THEN DatosEn(k).name
  ELSE "vía sin nombre"
LongitudEn(k) == IF "length" \in DOMAIN DatosEn(k) THEN DatosEn(k).length ELSE 0

\* the summed lengths of the path edges from index a to index b
RECURSIVE SumaLongitudes(_, _)
SumaLongitudes(a, b) ==
  IF a >= b THEN 0 ELSE LongitudEn(a) + SumaLongitudes(a + 1, b)

(* ------------------------------ claims --------------------------------- *)
\* C1: when destino is a node of G other than origen that is not reachable
\* from origen, camino_minimo raises nothing and returns the empty list.
C1_InalcanzableDevuelveVacio ==
  (destino \in Nodos /\ destino # origen /\ destino \notin Alcanzables)
    => /\ pc # "error"
       /\ pc = "fin" => (retorno = <<>> /\ retorno # <<origen>>)

\* C2: when destino is reachable from origen and differs from it,
\* camino_minimo returns a list that starts with origen, ends with destino,
\* steps along edges of G only, and whose summed weights are the least total
\* weight of any origen-destino path, which is also the final dist[destino].
C2_CaminoMinimo ==
  (destino \in Alcanzables /\ destino # origen)
    => /\ pc # "error"
       /\ pc = "fin" =>
            /\ Len(retorno) >= 2
            /\ retorno[1] = origen
            /\ retorno[Len(retorno)] = destino
            /\ EsCamino(retorno)
            /\ SumaCamino(retorno) = DistMin[destino]
            /\ SumaCamino(retorno) = dist[destino]

\* a detour of two edges was returned although the direct edge exists
C2_Witness ==
  /\ pc = "fin"
  /\ destino \in Alcanzables /\ destino # origen
  /\ Len(retorno) = 3
  /\ <<origen, destino>> \in DOMAIN G

\* C3: the keys of the dictionary dijkstra returns are exactly the nodes
\* reachable from origen other than origen itself.
C3_ClavesAlcanzables ==
  DijkstraHecho => DOMAIN padres = Alcanzables \ {origen}

\* C4: in the dictionary dijkstra returns, the parent pointers followed from
\* any node reachable from origen arrive at origen, so they visit no node
\* twice.
C4_PadresSinCiclo ==
  DijkstraHecho => \A v \in Alcanzables : LlegaAOrigen(v, NumNodos - 1)

\* the tree has a node two steps from origen and G has a cycle of weight 0
C4_Witness ==
  /\ DijkstraHecho
  /\ \E v \in Alcanzables \ {origen} : padres[v] \notin {None, origen}
  /\ \E u, v \in Alcanzables :
       /\ <<u, v>> \in DOMAIN G /\ <<v, u>> \in DOMAIN G
       /\ G[<<u, v>>] = 0 /\ G[<<v, u>>] = 0

\* C5: camino_minimo(G, peso, o, o) returns [o] and neither calls dijkstra,
\* nor evaluates the weight function, nor reads the graph.
C5_MismoNodo ==
  origen = destino
    => /\ pc \in {"inicio", "fin"}
       /\ llamadas = SinLlamadas
       /\ pc = "fin" => retorno = <<origen>>

\* the call with origen = destino has returned, on a graph where origen has
\* outgoing edges
C5_Witness ==
  /\ pc = "fin"
  /\ origen = destino
  /\ Vecinos(G, origen) # {}
  /\ retorno = <<origen>>

\* C6: kruskal returns |V| - k edges of G, k the number of connected
\* components of G; no returned edge joins two nodes that the edges accepted
\* before it already joined; and after every step C[x] is the set of the
\* nodes joined to x by the accepted edges.
C6_KruskalBosque ==
  pc \in {"kruskal", "hecho"} =>
    /\ \A k \in 1..Len(aristas_aam) :
         /\ aristas_aam[k] \in AristasDe(G)
         /\ aristas_aam[k][2] \notin CierreND(Aceptadas(k - 1), {aristas_aam[k][1]})
    /\ \A x \in Nodos : C[x] = CierreND(Aceptadas(Len(aristas_aam)), {x})
    /\ pc = "hecho" => Len(aristas_aam) = NumNodos - Cardinality(Componentes)

\* kruskal has returned two edges of a triangle and refused the third
C6_Witness ==
  /\ pc = "hecho"
  /\ Cardinality(AristasDe(G)) = 3
  /\ Len(aristas_aam) = 2

\* C7: on a connected graph with pairwise distinct weights, the parent edges
\* of prim and the edges of kruskal have the same total weight.
C7_PrimIgualKruskal ==
  (pc = "hecho" /\ Conexo /\ PesosDistintos)
    => SumaPesos(AristasPrim(Nodos)) = SumaPesos(Aceptadas(Len(aristas_aam)))

\* both have returned on a triangle with three distinct weights
C7_Witness ==
  /\ pc = "hecho"
  /\ Conexo /\ PesosDistintos
  /\ Cardinality(AristasDe(G)) = 3

\* C8: prim returns a parent for every node of G such that each connected
\* component has exactly one root, every other node's parent is a neighbour
\* of it, the parent pointers lead from every node to a root, and the parent
\* edges inside each component weigh as little as any spanning tree of it.
C8_PrimBosqueMinimo ==
  PrimHecho =>
    /\ DOMAIN padre = Nodos
    /\ \A K \in Componentes :
         /\ Cardinality(Raices(K)) = 1
         /\ \A x \in K \ Raices(K) : padre[x] \in Vecinos(G, x) /\ padre[x] \in K
         /\ \A x \in K : LlegaARaiz(x, NumNodos - 1)
         /\ SumaPesos(AristasPrim(K)) = MinDe({SumaPesos(T) : T \in ArbolesDe(K)})

\* prim has returned on a graph that is not connected and has an edge
C8_Witness ==
  /\ PrimHecho
  /\ Cardinality(Componentes) >= 2
  /\ \E K \in Componentes : Cardinality(K) >= 2 /\ Cardinality(Raices(K)) = 1

\* C9: at index k of camino with 0 < k < len(camino) - 1, with a the vector
\* arriving at the node and b the vector leaving it, _calcular_giro returns
\* no turn when a or b is zero, no turn when |cross(a, b)| < 1e-6 and
\* dot(a, b) > 0, and otherwise left when cross(a, b) > 0 and right when
\* cross(a, b) <= 0; so an exact reversal is a right turn.  At the first and
\* the last index it returns no turn.
C9_Giro ==
  pc = "giro_fin" =>
    LET k == idx_inicio_segmento
    IN IF ~(0 < k /\ k < Len(camino) - 1) THEN giro = Ninguno
       ELSE LET a == Llegada(k)
                b == Salida(k)
                recto == Abs(Cruz(a, b)) < EPS /\ Escalar(a, b) > 0
            IN /\ (a = Cero \/ b = Cero) => giro = Ninguno
               /\ (a # Cero /\ b # Cero /\ recto) => giro = Ninguno
               /\ (a # Cero /\ b # Cero /\ ~recto /\ Cruz(a, b) > 0)
                    => giro = "gira a la izquierda"
               /\ (a # Cero /\ b # Cero /\ ~recto /\ Cruz(a, b) <= 0)
                    => giro = "gira a la derecha"
               /\ (a # Cero /\ b # Cero /\ Cruz(a, b) = 0 /\ Escalar(a, b) <= 0)
                    => giro = "gira a la derecha"

\* _calcular_giro has returned on an exact reversal
C9_Witness ==
  /\ pc = "giro_fin"
  /\ 0 < idx_inicio_segmento /\ idx_inicio_segmento < Len(camino) - 1
  /\ Llegada(idx_inicio_segmento) # Cero
  /\ Salida(idx_inicio_segmento) # Cero
  /\ Cruz(Llegada(idx_inicio_segmento), Salida(idx_inicio_segmento)) = 0
  /\ Escalar(Llegada(idx_inicio_segmento), Salida(idx_inicio_segmento)) < 0
  /\ giro = "gira a la derecha"

\* C10: for a path of two nodes or more, the segments of
\* construir_instrucciones are the maximal runs of path edges with one
\* resolved street name: the first starts at index 0, each ends where the
\* next starts, the last ends at index len(camino) - 1, adjacent segments
\* differ in name, every edge of a segment has the segment's name, and a
\* segment's dist is the sum of the lengths of its edges.
C10_Segmentos ==
  pc = "frases" =>
    LET n == Len(segmentos)
    IN /\ n >= 1
       /\ segmentos[1].inicio = 0
       /\ segmentos[n].fin = Len(camino) - 1
       /\ \A j \in 1..(n - 1) :
            /\ segmentos[j].fin = segmentos[j + 1].inicio
            /\ segmentos[j].nombre # segmentos[j + 1].nombre
       /\ \A j \in 1..n :
            /\ segmentos[j].inicio < segmentos[j].fin
            /\ \A k \in segmentos[j].inicio..(segmentos[j].fin - 1) :
                 NombreResuelto(k) = segmentos[j].nombre
            /\ segmentos[j].dist = SumaLongitudes(segmentos[j].inicio, segmentos[j].fin)

\* an edge without name and an edge with a blank name were merged into one
\* segment, and a named edge follows in a second one
C10_Witness ==
  /\ pc = "frases"
  /\ Len(camino) = 4
  /\ Len(segmentos) = 2
  /\ segmentos[1].fin = 2
  /\ "name" \notin DOMAIN DatosEn(0)
  /\ "name" \in DOMAIN DatosEn(1) /\ DatosEn(1).name = " "
  /\ "length" \notin DOMAIN DatosEn(1)
  /\ segmentos[2].nombre = "Calle A"

\* the turn the vectors at index k of camino describe: none at the ends of
\* the path, for a zero vector and for a straight continuation, otherwise
\* left for a positive cross product and right for any other
GiroEn(k) ==
  IF ~(0 < k /\ k < Len(camino) - 1) THEN "ninguno"
  ELSE IF Llegada(k) = Cero \/ Salida(k) = Cero THEN "ninguno"
  ELSE IF Abs(Cruz(Llegada(k), Salida(k))) < EPS /\ Escalar(Llegada(k), Salida(k)) > 0
       THEN "ninguno"
  ELSE IF Cruz(Llegada(k), Salida(k)) > 0 THEN "izquierda"
  ELSE "derecha"

PrefijoDe(j) ==
  IF j = 1 THEN "Sal desde el origen y "
  ELSE IF GiroEn(segmentos[j].inicio) = "izquierda" THEN "Luego gira a la izquierda y "
  ELSE IF GiroEn(segmentos[j].inicio) = "derecha" THEN "Luego gira a la derecha y "
  ELSE "Luego "

\* the path A(0, 0) -> B(1, 0) -> C(1, 1) over two edges of different names
EscenarioABC ==
  /\ Len(camino) = 3
  /\ NodoEn(0) = [x |-> 0, y |-> 0]
  /\ NodoEn(1) = [x |-> Unidad, y |-> 0]
  /\ NodoEn(2) = [x |-> Unidad, y |-> Unidad]
  /\ NombreResuelto(0) # NombreResuelto(1)

\* C11: the phrase of the first segment begins "Sal desde el origen y " and
\* names no turn; the phrase of every later segment begins "Luego gira a la
\* izquierda y " or "Luego gira a la derecha y " exactly when the vectors at
\* the index where the segment starts describe that turn, and "Luego " alone
\* when they describe none.  On A(0, 0) -> B(1, 0) -> C(1, 1) with two names
\* the second phrase is a turn to the left.
C11_Prefijos ==
  pc \in {"frases", "instr_fin"} =>
    /\ \A j \in 1..Len(segmentos) :
         j <= Len(instrucciones) =>
           instrucciones[j] =
             PrefijoDe(j) \o CuerpoFrase(segmentos[j].nombre, segmentos[j].dist)
    /\ (pc = "instr_fin" /\ EscenarioABC) =>
         /\ Len(retorno) = 3
         /\ retorno[2] = "Luego gira a la izquierda y "
                           \o CuerpoFrase(segmentos[2].nombre, segmentos[2].dist)

\* the scenario with A -> B of 100 m on Calle A and B -> C of 50 m on Calle B
C11_Witness ==
  /\ pc = "instr_fin"
  /\ EscenarioABC
  /\ DatosEn(0) = [name |-> "Calle A", length |-> 100]
  /\ DatosEn(1) = [name |-> "Calle B", length |-> 50]
  /\ retorno[1] = "Sal desde el origen y sigue por Calle A durante 0.10 km."
  /\ retorno[2] = "Luego gira a la izquierda y sigue por Calle B durante 0.05 km."

RECURSIVE SumaDist(_)
SumaDist(segs) == IF segs = <<>> THEN 0 ELSE Head(segs).dist + SumaDist(Tail(segs))

\* C12: for a path of two nodes or more construir_instrucciones returns one
\* phrase per segment, in the order of the path, and then one line of the
\* total; the distance of that line is the sum of the segments' dist, which
\* is the sum of the lengths of all the edges of the path.
C12_LineaTotal ==
  (pc = "instr_fin" /\ Len(camino) >= 2) =>
    /\ Len(retorno) = Len(segmentos) + 1
    /\ \A j \in 1..Len(segmentos) :
         \E g \in {Ninguno, "gira a la izquierda", "gira a la derecha"} :
           retorno[j] = FraseSegmento(segmentos[j].nombre, segmentos[j].dist, j = 1, g)
    /\ total_dist = SumaDist(segmentos)
    /\ total_dist = SumaLongitudes(0, Len(camino) - 1)
    /\ retorno[Len(retorno)] =
         "Distancia total aproximada: "
           \o Km2f(SumaLongitudes(0, Len(camino) - 1)) \o " km."

\* two segments of 100 m and 50 m and the line of 0.15 km
C12_Witness ==
  /\ pc = "instr_fin"
  /\ Len(segmentos) = 2
  /\ segmentos[1].dist = 100 /\ segmentos[2].dist = 50
  /\ Len(retorno) = 3
  /\ retorno[3] = "Distancia total aproximada: 0.15 km."

\* C13: camino_minimo ends in TypeError whenever origen or destino is not
\* hashable, also when origen == destino, and never returns a path then;
\* dijkstra ends in TypeError whenever origen is not hashable.
C13_ClaveInvalida ==
  (/\ pc \in {"fin_clave", "error_clave", "cm_recorre"}
   /\ ~Hashable(origen) \/ (destino # NoneClave /\ ~Hashable(destino)))
    => pc = "error_clave" /\ retorno = "TypeError"

\* the speed the description resolves for edge data d: its own maxspeed when
\* present and a number, otherwise the table's speed of its highway; 0 - 1
\* when there is neither
VelocidadDescrita(d) ==
  LET propia == IF "maxspeed" \in DOMAIN d
                THEN (CASE d.maxspeed = "50" -> 50
                        [] d.maxspeed = " 30 " -> 30
                        [] d.maxspeed = "0" -> 0
                        [] OTHER -> 0 - 1)
                ELSE 0 - 1
      tabla == IF "highway" \in DOMAIN d
               THEN (CASE d.highway = "residential" -> 30
                       [] d.highway = "living_street" -> 20
                       [] d.highway = "motorway" -> 100
                       [] OTHER -> 0 - 1)
               ELSE 0 - 1
  IN IF propia >= 0 THEN propia ELSE tabla

\* C14: on an edge with a length, mas_rapido returns the time t with
\* t = length / (speed / 3.6), that is 10 * speed * t = 36 * length, for the
\* speed resolved from maxspeed and then from highway, and raises when there
\* is neither; mas_rapido_semaforos returns that time plus 24.
C14_Tiempo ==
  (/\ pc \in {"fin_mas_rapido", "fin_semaforos"}
   /\ "length" \in DOMAIN G.adj[<<1, 2>>])
    => LET d == G.adj[<<1, 2>>]
           vel == VelocidadDescrita(d)
           extra == IF pc = "fin_semaforos" THEN 24 ELSE 0
       IN IF vel < 0 THEN EsFalla(retorno)
          ELSE /\ ~EsFalla(retorno)
               /\ 10 * vel * (retorno.num - extra * retorno.den)
                    = 36 * d.length * retorno.den

\* a step of the loop of dijkstra that stays in the loop
PasoDeBucle == pc = "dijkstra" /\ pc' = "dijkstra"
\* the nodes a step marks visited
RecienVisitados == {v \in Nodos : visitado'[v] /\ ~visitado[v]}

\* C16: in the loop of dijkstra, with weights >= 0: (a) the distance of a
\* visited node is its least distance from origen; (b) a step marks at most
\* one node visited and never unmarks one, and a step that marks none (the
\* popped entry is of a visited node) takes that entry from Q and changes
\* nothing else; (c) no dist[v] increases; (d) a step changes neither the
\* dist nor the padre of a visited node.
C16_Bucle ==
  /\ [](pc = "dijkstra" => \A v \in Nodos : visitado[v] => dist[v] = DistMin[v])
  /\ [][PasoDeBucle =>
          /\ Cardinality(RecienVisitados) <= 1
          /\ \A v \in Nodos : visitado[v] => visitado'[v]
          /\ RecienVisitados = {} =>
               /\ UNCHANGED <<dist, padre, visitado, contador, llamadas>>
               /\ \E e \in Q : e[1] >= dist[e[3]] /\ visitado[e[3]] /\ Q' = Q \ {e}
          /\ \A v \in Nodos : dist'[v] <= dist[v]
          /\ \A v \in Nodos :
               visitado[v] => dist'[v] = dist[v] /\ padre'[v] = padre[v]]_vars

\* the entry at the head of Q is of a visited node whose distance has gone
\* below the entry's, through a third visited node
C16_Witness ==
  /\ pc = "dijkstra"
  /\ Q # {}
  /\ visitado[Menor(Q)[3]]
  /\ Menor(Q)[1] > dist[Menor(Q)[3]]
  /\ padre[Menor(Q)[3]] \notin {None, origen}
  /\ visitado[padre[Menor(Q)[3]]]

\* C15: every call of dijkstra, prim and kruskal comes to its return, and
\* its loop is left only with the work list (Q, lista) empty.
\* dijkstra pushes once at the start and at most once per edge, prim once
\* per node at the start and at most once per edge; the list of kruskal
\* holds each edge once and every iteration takes exactly its head.
C15_Termina ==
  /\ <>(pc \in {"fin", "error", "hecho"})
  /\ [][(pc = "dijkstra" /\ pc' # "dijkstra") => Q = {}]_vars
  /\ [][(pc = "prim" /\ pc' # "prim") => Q = {}]_vars
  /\ [][(pc = "kruskal" /\ pc' # "kruskal") => lista = <<>>]_vars
  /\ [](pc = "dijkstra" => contador <= 1 + Cardinality(DOMAIN G))
  /\ [](pc = "prim" => contador <= NumNodos + Cardinality(AristasDe(G)))
  /\ [](pc = "kruskal" =>
          /\ Len(lista) <= Cardinality(AristasDe(G))
          /\ \A a, b \in 1..Len(lista) : a # b => lista[a] # lista[b]
          /\ \A a \in 1..Len(lista) : <<lista[a][2], lista[a][3]>> \in AristasDe(G))
  /\ [][(pc = "kruskal_inicio" /\ pc' = "kruskal")
          => Len(lista') = Cardinality(AristasDe(G))]_vars
  /\ [][(pc = "kruskal" /\ pc' = "kruskal") => lista' = Tail(lista)]_vars

\* prim and kruskal have both returned on a graph of three edges, prim
\* having pushed once for each edge
C15_Witness ==
  /\ pc = "hecho"
  /\ Q = {} /\ lista = <<>>
  /\ Cardinality(AristasDe(G)) = 3
  /\ contador = NumNodos + 3

====
